---- MODULE Spec2Model ----
(***************************************************************************)
(* Model of the Expense-Tracker document assistant (src/main.py and        *)
(* src/app/*.py): the Streamlit session state, the "Process Documents"     *)
(* handler, the question turn, and the helper functions they call.         *)
(*                                                                         *)
(* Representation of text.  A text is a sequence of paragraph tokens.      *)
(* Each token stands for one paragraph together with the blank line        *)
(* ("\n\n") that precedes it, so that the concatenation of page texts      *)
(* without a separator (pdf_utlis.py:26) is the concatenation of the       *)
(* token sequences, and the splitter's first separator ("\n\n") cuts a     *)
(* text exactly at the token boundaries.  ParLen gives the number of       *)
(* characters of a token, the blank line included.                         *)
(*                                                                         *)
(* Python values: None is the record NoneVal; a call that may raise        *)
(* returns Ok(value) or Raise(message).                                    *)
(***************************************************************************)
EXTENDS Integers, Sequences, FiniteSets, TLC

VARIABLES
    messages,       \* st.session_state.messages
    vectorstore,    \* st.session_state.vectorstore
    chat_model,     \* st.session_state.chat_model
    audio_cache,    \* st.session_state.audio_cache
    faiss_available,\* vectorstore_utlis._FAISS_AVAILABLE
    uuid_next,      \* the next value uuid.uuid4() returns
    run,            \* what the last script run did and rendered
    ingested,       \* the chunks of the last batch reported as processed
    recorded_audio_bytes,   \* st.session_state.recorded_audio_bytes
    stt_transcript,         \* st.session_state.stt_transcript
    user_input_text_manual, \* st.session_state.user_input_text_manual
    pc,             \* position of a helper-function call under test
    arg,            \* its argument
    ret             \* its result

vars == <<messages, vectorstore, chat_model, audio_cache,
          faiss_available, uuid_next, run, ingested,
          recorded_audio_bytes, stt_transcript, user_input_text_manual,
          pc, arg, ret>>

\* the keys of the chat input
inputVars == <<recorded_audio_bytes, stt_transcript, user_input_text_manual>>

sessionVars == <<messages, vectorstore, chat_model, audio_cache,
                 faiss_available, uuid_next, run, ingested, inputVars>>

callVars == <<pc, arg, ret>>

\* ------------------------------------------------------------------ bounds

MaxPages == 3
MaxPars == 4
MaxTurns == 2
MaxIndex == 5
MaxK == 5

\* --------------------------------------------------------- Python values

NoneVal == [kind |-> "None"]

Ok(v) == [ok |-> TRUE, val |-> v]

Raise(msg) == [ok |-> FALSE, err |-> msg]

\* a str where None may stand instead
Str(t) == [kind |-> "str", text |-> t]

\* bool(x) of a str or None: None and "" are false
Truthy(x) == x.kind = "str" /\ x.text # <<>>

Min(a, b) == IF a <= b THEN a ELSE b

\* ------------------------------------------------------------------ texts

Paragraphs == {"a", "b", "c", "d"}

\* len() of a paragraph token: its characters plus the two of its blank line
ParLen(p) ==
    CASE p = "a" -> 60
      [] p = "b" -> 130
      [] p = "c" -> 450
      [] p = "d" -> 900

SeqsUpTo(S, n) == UNION {[1..m -> S] : m \in 0..n}

RECURSIVE SumLen(_)
SumLen(s) == IF s = <<>> THEN 0 ELSE ParLen(Head(s)) + SumLen(Tail(s))

\* ------------------------------------------------- app/pdf_utlis.py

\* What PdfReader(file) and page.extract_text() do is the library's: a file
\* either parses or raises; a page yields None, "" or a text, or raises.
PageOutcomes ==
    {NoneVal, [kind |-> "raise"]}
      \cup {Str(t) : t \in {<<>>, <<"a">>, <<"b", "c">>, <<"d">>}}

PdfFiles ==
    {[parses |-> FALSE, pages |-> <<>>]}
      \cup {[parses |-> TRUE, pages |-> ps] : ps \in SeqsUpTo(PageOutcomes, MaxPages)}

\* the loop with each page's text put before the text collected so far
RECURSIVE ExtractPagesPrepending(_, _, _)
ExtractPagesPrepending(pages, i, text) ==
    IF i > Len(pages) THEN Ok(text)
    ELSE IF pages[i].kind = "raise" THEN Raise("Error reading PDF")
    ELSE IF Truthy(pages[i])
         THEN ExtractPagesPrepending(pages, i + 1, pages[i].text \o text)
         ELSE ExtractPagesPrepending(pages, i + 1, text)

\* the for loop of lines 21-24, from page i with `text` collected so far
RECURSIVE ExtractPages(_, _, _)
ExtractPages(pages, i, text) ==
    IF i > Len(pages) THEN Ok(text)
    ELSE LET page == pages[i] IN
         IF page.kind = "raise" THEN Raise("Error reading PDF")
         ELSE LET page_text == page IN
              IF Truthy(page_text)
              THEN ExtractPages(pages, i + 1, text \o page_text.text)
              ELSE ExtractPages(pages, i + 1, text)

extract_text_from_pdf(file) ==
    IF ~file.parses THEN Raise("Error reading PDF")
    ELSE ExtractPages(file.pages, 1, <<>>)

\* ------------------------------------------- main.py: the text splitter

chunk_size == 1000

chunk_overlap == 200

\* RecursiveCharacterTextSplitter._merge_splits, the pop loop that runs after
\* a chunk is emitted: current_doc is text[first..i-1] and holds `total`
\* characters; tokens leave its front while it is longer than the overlap, or
\* while it is not empty and token i does not fit behind it.  The merge
\* separator is "" (the splitter keeps each separator on its split).
RECURSIVE PopFront(_, _, _, _, _, _)
PopFront(text, first, i, total, size, overlap) ==
    IF total > overlap \/ (total + ParLen(text[i]) > size /\ total > 0)
    THEN PopFront(text, first + 1, i, total - ParLen(text[first]), size, overlap)
    ELSE [first |-> first, total |-> total]

\* _merge_splits from token i on; docs are the chunks emitted so far, each the
\* range <<first, last>> of the tokens it holds
RECURSIVE MergeSplits(_, _, _, _, _, _, _)
MergeSplits(text, i, first, total, docs, size, overlap) ==
    IF i > Len(text)
    THEN IF first < i THEN Append(docs, <<first, i - 1>>) ELSE docs
    ELSE IF total + ParLen(text[i]) > size /\ first < i
         THEN LET kept == PopFront(text, first, i, total, size, overlap) IN
              MergeSplits(text, i + 1, kept.first, kept.total + ParLen(text[i]),
                          Append(docs, <<first, i - 1>>), size, overlap)
         ELSE MergeSplits(text, i + 1, first, total + ParLen(text[i]), docs,
                          size, overlap)

\* split_text: every token is shorter than the chunk size, so the text is cut
\* at "\n\n" into its tokens and merged in one call; "" has no splits
split_ranges(text, size, overlap) ==
    IF text = <<>> THEN <<>> ELSE MergeSplits(text, 1, 1, 0, <<>>, size, overlap)

split_text(text, size, overlap) ==
    LET rs == split_ranges(text, size, overlap) IN
    [n \in 1..Len(rs) |-> SubSeq(text, rs[n][1], rs[n][2])]

\* len() of a chunk: _join_docs strips the blank line its first token starts with
ChunkLen(chunk) == SumLen(chunk) - 2

\* a splitter set up with twice the overlap and more
text_splitter_wide == [chunk_size |-> chunk_size, chunk_overlap |-> chunk_size \div 2]

\* the splitter as main.py sets it up (lines 181-185)
text_splitter == [chunk_size |-> chunk_size, chunk_overlap |-> chunk_overlap]

text_splitter_ranges(text) ==
    split_ranges(text, text_splitter.chunk_size, text_splitter.chunk_overlap)

text_splitter_split_text(text) ==
    split_text(text, text_splitter.chunk_size, text_splitter.chunk_overlap)

\* the characters chunk n and chunk n+1 of a split have in common: the tokens
\* in both ranges, without the blank line the later chunk lost
SharedLen(text, rs, n) ==
    IF rs[n + 1][1] > rs[n][2] THEN 0
    ELSE SumLen(SubSeq(text, rs[n + 1][1], rs[n][2])) - 2

\* ------------------------------------------- app/vectorstore_utlis.py

\* A FAISS store holds its texts in insertion order.
FaissStore(texts) == [kind |-> "FAISS", texts |-> texts]

\* create_faiss_index: raises when FAISS is missing; building the embeddings
\* and the index is the library's and may raise too (backend_ok)
create_faiss_index(texts, available, backend_ok) ==
    IF ~available THEN Raise("FAISS is not available in this environment.")
    ELSE IF ~backend_ok THEN Raise("embedding backend failed")
    ELSE Ok(FaissStore(texts))

Questions == {"q1", "q2"}

\* the embedding of a paragraph token or of a question, on one axis
Embed(x) ==
    CASE x = "a" -> 1
      [] x = "b" -> 3
      [] x = "c" -> 6
      [] x = "d" -> 8
      [] x = "q1" -> 2
      [] x = "q2" -> 7

RECURSIVE EmbedText(_)
EmbedText(t) == IF t = <<>> THEN 0 ELSE Embed(Head(t)) + EmbedText(Tail(t))

\* squared L2 distance of a stored text to the query
Distance(query, text) ==
    (EmbedText(text) - Embed(query)) * (EmbedText(text) - Embed(query))

\* the position, among those not in `taken`, of the text nearest to the query;
\* of two equally near the earlier one
Nearest(texts, query, taken) ==
    CHOOSE i \in (1..Len(texts)) \ taken :
        \A j \in (1..Len(texts)) \ taken :
            \/ Distance(query, texts[i]) < Distance(query, texts[j])
            \/ Distance(query, texts[i]) = Distance(query, texts[j]) /\ i <= j

RECURSIVE SearchFrom(_, _, _, _, _)
SearchFrom(texts, query, k, taken, found) ==
    IF Len(found) >= k \/ taken = 1..Len(texts) THEN found
    ELSE LET i == Nearest(texts, query, taken) IN
         SearchFrom(texts, query, k, taken \cup {i},
                    Append(found, [id |-> i, page_content |-> texts[i]]))

\* FAISS.similarity_search: the k nearest stored texts, nearest first, fewer
\* when the store holds fewer
similarity_search(store, query, k) == SearchFrom(store.texts, query, k, {}, <<>>)

\* the default of parameter k (line 33)
DefaultK == 4

\* an argument a caller passes, or leaves out (NoneVal)
Passed(v) == [kind |-> "int", val |-> v]

\* retrive_relevant_docs without its check of the store
retrive_relevant_docs_unchecked(store, query, k, available, search_ok) ==
    IF store.kind = "None" THEN Ok(<<>>)
    ELSE IF ~search_ok THEN Raise("similarity search failed")
    ELSE Ok(SearchFrom(store.texts, query, DefaultK, {}, <<>>))

\* retrive_relevant_docs that leaves k to the library's default
retrive_relevant_docs_default_k(store, query, k, available, search_ok) ==
    IF ~available \/ store.kind = "None" THEN Raise("Vector search is not available")
    ELSE IF ~search_ok THEN Raise("similarity search failed")
    ELSE Ok(SearchFrom(store.texts, query, DefaultK, {}, <<>>))

\* the value of parameter k in the body: the default when none is passed
ParamK(k) == IF k.kind = "None" THEN DefaultK ELSE k.val

\* retrive_relevant_docs(vectorstore, query, k=4); the search itself is the
\* library's and may raise (search_ok)
retrive_relevant_docs(store, query, k, available, search_ok) ==
    IF ~available \/ store.kind = "None"
    THEN Raise("Vector search is not available because FAISS is missing or vectorstore is not initialized.")
    ELSE IF ~search_ok THEN Raise("similarity search failed")
    ELSE Ok(similarity_search(store, query, ParamK(k)))

\* ------------------------------------------------- app/chat_utlis.py

ChatModel == [kind |-> "ChatModel", model |-> "gpt-4.1-nano"]

get_chat_model(backend_ok) ==
    IF backend_ok THEN Ok(ChatModel)
    ELSE Raise("Failed to create chat model")

\* What chat_model.invoke(prompt) does is the backend's: it raises, returns
\* None, or returns a message object with a content string.
Message(content) == [kind |-> "AIMessage", content |-> content]

InvokeOutcomes ==
    {[kind |-> "raise"], NoneVal, Message(""), Message("The lunch receipt was $12.50.")}

\* bool(response): None is false, a message object is true
ResponseTruthy(response) == response.kind # "None"

ask_chat_model(response) ==
    IF response.kind = "raise" THEN Raise("Error during query to chat model")
    ELSE IF ResponseTruthy(response) THEN Ok(response.content)
    ELSE Ok("No response received.")

\* ------------------------------------------------------- app/ui.py

\* What gTTS does is the backend's: the import fails, the synthesis raises,
\* or it writes some bytes, possibly none.
TtsOutcomes == {"missing", "raises", "nodata", "data"}

\* bytes: the MP3 of a text, or b"" (the MP3 of nothing)
Mp3(text) == [kind |-> "bytes", mp3_of |-> text]

\* bool(x) of bytes or None: None and b"" are false
BytesTruthy(x) == x.kind = "bytes" /\ x.mp3_of # ""

\* speak_text with the try around the synthesis left off
speak_text_unguarded(text, tts) ==
    IF text = "" THEN Ok(NoneVal)
    ELSE IF tts = "missing" THEN Ok(NoneVal)
    ELSE IF tts = "raises" THEN Raise("TTS failed")
    ELSE LET data == IF tts = "nodata" THEN Mp3("") ELSE Mp3(text) IN
         IF ~BytesTruthy(data) THEN Ok(NoneVal) ELSE Ok(data)

\* speak_text(text, play=False): the audio, or None for an empty text, a
\* missing gTTS, a synthesis that raises and one that writes no bytes.  With
\* the audio it also writes st.session_state['last_tts'], a key nothing
\* reads: it is left out.
speak_text(text, tts) ==
    IF text = "" THEN Ok(NoneVal)
    ELSE IF tts = "missing" THEN Ok(NoneVal)
    ELSE IF tts = "raises" THEN Ok(NoneVal)
    ELSE LET data == IF tts = "nodata" THEN Mp3("") ELSE Mp3(text) IN
         IF ~BytesTruthy(data) THEN Ok(NoneVal) ELSE Ok(data)

\* ------------------------------------------------------------ main.py

\* bool(st.session_state.x) for the store and the chat model: an object is
\* true, None is false
ObjTruthy(x) == x.kind # "None"

\* the files the uploader can hand over
DocReceipts == [parses |-> TRUE, pages |-> <<Str(<<"d">>), Str(<<"c">>)>>]

DocInvoice == [parses |-> TRUE, pages |-> <<Str(<<"a">>), NoneVal, Str(<<"b", "c">>)>>]

DocCorrupt == [parses |-> FALSE, pages |-> <<>>]

\* the batches a user uploads: one file or several, a corrupt file alone or
\* after a good one
Uploads ==
    {<<DocReceipts>>, <<DocInvoice>>, <<DocCorrupt>>,
     <<DocInvoice, DocReceipts>>, <<DocReceipts, DocCorrupt>>}

\* lines 172-178: the texts of the files from file i on, or the first error
RECURSIVE ExtractAll(_, _, _)
ExtractAll(files, i, all_texts) ==
    IF i > Len(files) THEN Ok(all_texts)
    ELSE LET text == extract_text_from_pdf(files[i]) IN
         IF text.ok THEN ExtractAll(files, i + 1, Append(all_texts, text.val))
         ELSE text

\* lines 187-189: chunks.extend(split_text(text)) for the texts from i on
RECURSIVE ChunkAll(_, _, _)
ChunkAll(all_texts, i, chunks) ==
    IF i > Len(all_texts) THEN chunks
    ELSE ChunkAll(all_texts, i + 1, chunks \o text_splitter_split_text(all_texts[i]))

\* what the backends do during one run of the handler; an outcome the run
\* never gets to is fixed
ProcessEnvs ==
    {e \in [index_ok : BOOLEAN, model_ok : BOOLEAN] : ~e.index_ok => e.model_ok}

\* lines 170-205: the try block of the handler, as the values it leaves in
\* the session and what it reports
ProcessResult(files, store, model, available, index_ok, model_ok) ==
    LET all_texts == ExtractAll(files, 1, <<>>) IN
    IF ~all_texts.ok
    THEN [vectorstore |-> store, chat_model |-> model, error |-> all_texts.err,
          success |-> FALSE, chunks |-> <<>>]
    ELSE LET chunks == ChunkAll(all_texts.val, 1, <<>>)
             new_store == create_faiss_index(chunks, available, index_ok)
         IN
         IF ~new_store.ok
         THEN [vectorstore |-> store, chat_model |-> model, error |-> new_store.err,
               success |-> FALSE, chunks |-> chunks]
         ELSE LET new_model == get_chat_model(model_ok) IN
              IF ~new_model.ok
              THEN [vectorstore |-> new_store.val, chat_model |-> model,
                    error |-> new_model.err, success |-> FALSE, chunks |-> chunks]
              ELSE [vectorstore |-> new_store.val, chat_model |-> new_model.val,
                    error |-> "", success |-> TRUE, chunks |-> chunks]

\* the "Process Documents" button (lines 168-205)
ProcessDocuments ==
    /\ pc = "session"
    /\ \E uploaded_files \in Uploads, env \in ProcessEnvs :
         LET r == ProcessResult(uploaded_files, vectorstore, chat_model,
                                faiss_available, env.index_ok, env.model_ok)
         IN
         /\ vectorstore' = r.vectorstore
         /\ chat_model' = r.chat_model
         /\ ingested' = IF r.success THEN Str(r.chunks) ELSE ingested
         /\ run' = [handler |-> "process", error |-> r.error, success |-> r.success]
    /\ UNCHANGED <<messages, audio_cache, faiss_available, uuid_next>>
    /\ UNCHANGED inputVars
    /\ UNCHANGED callVars

\* lines 346-358: the context and the prompt, as the sequence of its parts
Segment(name) == [seg |-> name, body |-> <<>>]

\* the prompt with the context joined last chunk first
RECURSIVE JoinContextReversed(_, _)
JoinContextReversed(relevant_docs, i) ==
    IF i > Len(relevant_docs) THEN <<>>
    ELSE JoinContextReversed(relevant_docs, i + 1)
           \o (IF i < Len(relevant_docs) THEN <<Segment("blank line")>> ELSE <<>>)
           \o <<[seg |-> "chunk", body |-> relevant_docs[i].page_content]>>

RECURSIVE JoinContext(_, _)
JoinContext(relevant_docs, i) ==
    IF i > Len(relevant_docs) THEN <<>>
    ELSE (IF i > 1 THEN <<Segment("blank line")>> ELSE <<>>)
           \o <<[seg |-> "chunk", body |-> relevant_docs[i].page_content]>>
           \o JoinContext(relevant_docs, i + 1)

system_prompt(relevant_docs, prompt) ==
    <<Segment("role"), Segment("answer from the documents"),
      Segment("state when not in the documents"), Segment("cite the part used"),
      Segment("Expense Documents Context:")>>
      \o JoinContext(relevant_docs, 1)
      \o <<Segment("User Question:"), [seg |-> "question", body |-> <<prompt>>],
           Segment("Please provide a comprehensive answer:")>>

UserTurns == Cardinality({i \in 1..Len(messages) : messages[i].role = "user"})

\* a history entry; the timestamp (time.strftime, "%H:%M") is left out: no
\* handler reads it back
UserMessage(prompt) == [role |-> "user", content |-> prompt]

\* lines 382-388: the entry has the key audio_id only when audio was made
AssistantMessage(response, audio_id) ==
    IF audio_id.kind = "None" THEN [role |-> "assistant", content |-> response]
    ELSE [role |-> "assistant", content |-> response, audio_id |-> audio_id.val]

\* lines 336-396: the answer to `prompt`, as what the turn appends, stores and
\* renders.  search_ok, response and tts are what the search library, the
\* completion backend and the speech backend do in this turn.
AnswerResult(prompt, store, model, available, search_ok, response, tts, uuid) ==
    LET quiet == [ready |-> FALSE, error |-> "", invoked |-> FALSE, sent |-> <<>>,
                  retrieved |-> <<>>, backend |-> NoneVal, response |-> "",
                  tts |-> "", audio |-> NoneVal, audio_id |-> NoneVal,
                  appended |-> <<>>]
    IN
    IF ~(ObjTruthy(store) /\ ObjTruthy(model))
    THEN [quiet EXCEPT !.error = "Please upload and process documents first!"]
    ELSE LET relevant_docs == retrive_relevant_docs(store, prompt, NoneVal,
                                                    available, search_ok)
         IN
         IF ~relevant_docs.ok
         THEN [quiet EXCEPT !.ready = TRUE, !.error = "Error generating response"]
         ELSE LET sent == system_prompt(relevant_docs.val, prompt)
                  answer == ask_chat_model(response)
              IN
              IF ~answer.ok
              THEN [quiet EXCEPT !.ready = TRUE, !.error = "Error generating response",
                                 !.invoked = TRUE, !.sent = sent,
                                 !.retrieved = relevant_docs.val,
                                 !.backend = response]
              ELSE LET spoken == speak_text(answer.val, tts) IN
                   IF ~spoken.ok
                   THEN [quiet EXCEPT !.ready = TRUE, !.error = "Error generating response",
                                      !.invoked = TRUE, !.sent = sent,
                                      !.retrieved = relevant_docs.val,
                                      !.backend = response, !.response = answer.val,
                                      !.tts = tts]
                   ELSE
                   LET audio_bytes_tts == spoken.val
                       audio_id == IF BytesTruthy(audio_bytes_tts) THEN Passed(uuid)
                                   ELSE NoneVal
                   IN
                   [ready |-> TRUE, error |-> "", invoked |-> TRUE, sent |-> sent,
                    retrieved |-> relevant_docs.val, backend |-> response,
                    response |-> answer.val, tts |-> tts,
                    audio |-> audio_bytes_tts, audio_id |-> audio_id,
                    appended |-> <<AssistantMessage(answer.val, audio_id)>>]

\* what the backends do during one turn; an outcome the turn never gets to
\* is fixed
AskEnvs ==
    {e \in [search_ok : BOOLEAN, response : InvokeOutcomes, tts : TtsOutcomes] :
        /\ ~e.search_ok => e.response = NoneVal
        /\ (e.response.kind = "raise" \/ ~e.search_ok) => e.tts = "data"}

\* the questions a user of the session types
Prompts == {"q1"}

\* a turn that drops the index when it fails
AskInvalidating ==
    /\ pc = "session"
    /\ UserTurns < MaxTurns
    /\ \E prompt \in Prompts, env \in AskEnvs :
         LET r == AnswerResult(prompt, vectorstore, chat_model, faiss_available,
                               env.search_ok, env.response, env.tts, uuid_next)
         IN
         /\ messages' = Append(messages, UserMessage(prompt)) \o r.appended
         /\ audio_cache' = IF r.audio_id.kind = "None" THEN audio_cache
                           ELSE audio_cache @@ (r.audio_id.val :> r.audio)
         /\ uuid_next' = IF r.audio_id.kind = "None" THEN uuid_next ELSE uuid_next + 1
         /\ run' = [handler |-> "ask", prompt |-> prompt] @@ r
         /\ vectorstore' = IF r.error # "" THEN NoneVal ELSE vectorstore
    /\ stt_transcript' = ""
    /\ user_input_text_manual' = ""
    /\ UNCHANGED <<chat_model, faiss_available, ingested, recorded_audio_bytes>>
    /\ UNCHANGED callVars

\* lines 213-224: the audio the history shows under message i, None when the
\* message has no audio_id or the cache has no such key
HistoryAudio(history, cache, i) ==
    LET message == history[i] IN
    IF "audio_id" \in DOMAIN message /\ message.audio_id \in DOMAIN cache
    THEN cache[message.audio_id]
    ELSE NoneVal

\* a turn that names the audio in the history entry and stores none
AskUncached ==
    /\ pc = "session"
    /\ UserTurns < MaxTurns
    /\ \E prompt \in Prompts, env \in AskEnvs :
         LET r == AnswerResult(prompt, vectorstore, chat_model, faiss_available,
                               env.search_ok, env.response, env.tts, uuid_next)
         IN
         /\ messages' = Append(messages, UserMessage(prompt)) \o r.appended
         /\ audio_cache' = audio_cache
         /\ uuid_next' = IF r.audio_id.kind = "None" THEN uuid_next ELSE uuid_next + 1
         /\ run' = [handler |-> "ask", prompt |-> prompt] @@ r
    /\ stt_transcript' = ""
    /\ user_input_text_manual' = ""
    /\ UNCHANGED <<vectorstore, chat_model, faiss_available, ingested,
                   recorded_audio_bytes>>
    /\ UNCHANGED callVars

\* a prompt submitted in the chat input (lines 316-396)
Ask ==
    /\ pc = "session"
    /\ UserTurns < MaxTurns
    /\ \E prompt \in Prompts, env \in AskEnvs :
         LET r == AnswerResult(prompt, vectorstore, chat_model, faiss_available,
                               env.search_ok, env.response, env.tts, uuid_next)
         IN
         /\ messages' = Append(messages, UserMessage(prompt)) \o r.appended
         /\ audio_cache' = IF r.audio_id.kind = "None" THEN audio_cache
                           ELSE audio_cache @@ (r.audio_id.val :> r.audio)
         /\ uuid_next' = IF r.audio_id.kind = "None" THEN uuid_next ELSE uuid_next + 1
         /\ run' = [handler |-> "ask", prompt |-> prompt] @@ r
    /\ stt_transcript' = ""
    /\ user_input_text_manual' = ""
    /\ UNCHANGED <<vectorstore, chat_model, faiss_available, ingested,
                   recorded_audio_bytes>>
    /\ UNCHANGED callVars

\* the "Test TTS" button (lines 148-158)
TestTTS ==
    /\ pc = "session"
    /\ \E tts \in TtsOutcomes :
         LET audio_data == speak_text("This is a text to speech test.", tts) IN
         run' = [handler |-> "tts",
                 error |-> IF audio_data.ok /\ BytesTruthy(audio_data.val) THEN ""
                           ELSE "TTS test failed"]
    /\ UNCHANGED <<messages, vectorstore, chat_model, audio_cache, faiss_available,
                   uuid_next, ingested>>
    /\ UNCHANGED inputVars
    /\ UNCHANGED callVars

\* ---------------------------------------------- main.py: the chat input

\* What mic_recorder returns is the component's: None, or the bytes of a
\* recording; a call that raises leaves None (lines 229-240).
Wav(name) == [kind |-> "bytes", wav_of |-> name]

MicOutcomes == {NoneVal, Wav("first recording"), Wav("second recording")}

\* bool(audio_bytes_from_mic): None is false, a recording is true
MicTruthy(x) == x.kind = "bytes"

\* What the transcription does is the libraries': AudioSegment or the
\* recognizer raises, or recognize_google returns the text.
SttOutcomes ==
    {[kind |-> "UnknownValueError"], [kind |-> "RequestError"], [kind |-> "Exception"],
     Str("q1"), Str("q2")}

\* what a user leaves in the chat input box
BoxTexts == {"", "q1", "q3"}

\* lines 285-289: the value the chat input is given
current_input_value ==
    IF stt_transcript # "" THEN stt_transcript
    ELSE IF user_input_text_manual # "" THEN user_input_text_manual
    ELSE ""

\* lines 247-277: a new recording arrives and is transcribed
ProcessRecordedAudio ==
    /\ pc = "session"
    /\ \E audio_bytes_from_mic \in MicOutcomes, text \in SttOutcomes :
         /\ MicTruthy(audio_bytes_from_mic)
         /\ recorded_audio_bytes # audio_bytes_from_mic
         /\ recorded_audio_bytes' = audio_bytes_from_mic
         /\ user_input_text_manual' = ""
         /\ stt_transcript' = IF text.kind = "str" THEN text.text ELSE ""
         /\ run' = [handler |-> "record",
                    error |-> IF text.kind = "str" THEN "" ELSE text.kind]
    /\ UNCHANGED <<messages, vectorstore, chat_model, audio_cache, faiss_available,
                   uuid_next, ingested>>
    /\ UNCHANGED callVars

\* the callback with the transcript left in place when the user types
update_input_state_keeping_transcript ==
    /\ pc = "session"
    /\ \E chat_input_box \in BoxTexts \cup {current_input_value} :
         /\ user_input_text_manual' =
                IF chat_input_box # stt_transcript THEN chat_input_box ELSE ""
         /\ stt_transcript' = stt_transcript
         /\ run' = [handler |-> "change", error |-> "", box |-> chat_input_box,
                    cleared |-> FALSE]
    /\ UNCHANGED <<messages, vectorstore, chat_model, audio_cache, faiss_available,
                   uuid_next, ingested, recorded_audio_bytes>>
    /\ UNCHANGED callVars

\* lines 292-304: the on_change callback of the chat input, run with the
\* text now in the box
update_input_state_on_change ==
    /\ pc = "session"
    /\ \E chat_input_box \in BoxTexts \cup {current_input_value} :
         IF chat_input_box # stt_transcript
         THEN /\ user_input_text_manual' = chat_input_box
              /\ stt_transcript' = ""
              /\ run' = [handler |-> "change", error |-> "", box |-> chat_input_box,
                         cleared |-> (stt_transcript # "")]
         ELSE /\ user_input_text_manual' = ""
              /\ stt_transcript' = stt_transcript
              /\ run' = [handler |-> "change", error |-> "", box |-> chat_input_box,
                         cleared |-> FALSE]
    /\ UNCHANGED <<messages, vectorstore, chat_model, audio_cache, faiss_available,
                   uuid_next, ingested, recorded_audio_bytes>>
    /\ UNCHANGED callVars

\* lines 110-127 and the import of vectorstore_utlis
SessionInit ==
    /\ messages = <<>>
    /\ vectorstore = NoneVal
    /\ chat_model = NoneVal
    /\ audio_cache = <<>>
    /\ faiss_available \in BOOLEAN
    /\ uuid_next = 1
    /\ run = [handler |-> "start", error |-> ""]
    /\ ingested = NoneVal
    /\ recorded_audio_bytes = NoneVal
    /\ stt_transcript = ""
    /\ user_input_text_manual = ""

Init ==
    /\ SessionInit
    /\ pc = "session"
    /\ arg = NoneVal
    /\ ret = NoneVal

Next == ProcessDocuments \/ Ask \/ TestTTS

Spec == Init /\ [][Next]_vars

\* The chat input.  Its handlers write only the keys of the chat input, which
\* no other handler reads; they are explored together with the submission of
\* a prompt, the one handler that writes those keys too.
NextInput == ProcessRecordedAudio \/ update_input_state_on_change \/ Ask

SpecInput == Init /\ [][NextInput]_vars

\* ---------------------------------------------- the helpers, one call each

\* a call of extract_text_from_pdf on any file
InitPdf ==
    /\ SessionInit
    /\ pc = "call"
    /\ arg \in PdfFiles
    /\ ret = NoneVal

CallExtract ==
    /\ pc = "call"
    /\ ret' = extract_text_from_pdf(arg)
    /\ pc' = "done"
    /\ UNCHANGED <<arg, sessionVars>>

SpecPdf == InitPdf /\ [][CallExtract]_vars

\* a call of text_splitter.split_text on any text
Texts == SeqsUpTo(Paragraphs, MaxPars)

InitChunk ==
    /\ SessionInit
    /\ pc = "call"
    /\ arg \in Texts
    /\ ret = NoneVal

CallSplit ==
    /\ pc = "call"
    /\ ret' = [chunks |-> text_splitter_split_text(arg),
               ranges |-> text_splitter_ranges(arg)]
    /\ pc' = "done"
    /\ UNCHANGED <<arg, sessionVars>>

SpecChunk == InitChunk /\ [][CallSplit]_vars

\* a call of retrive_relevant_docs on any store, with k passed or left out
IndexTexts == {<<"a">>, <<"c">>, <<"a", "b">>}

InitRetrieve ==
    /\ SessionInit
    /\ pc = "call"
    /\ arg \in [store : {NoneVal} \cup {FaissStore(t) : t \in SeqsUpTo(IndexTexts, MaxIndex) \ {<<>>}},
                query : Questions,
                k : {NoneVal} \cup {Passed(n) : n \in 1..MaxK}]
    /\ ret = NoneVal

CallRetrieve ==
    /\ pc = "call"
    /\ ret' = retrive_relevant_docs(arg.store, arg.query, arg.k, faiss_available, TRUE)
    /\ pc' = "done"
    /\ UNCHANGED <<arg, sessionVars>>

SpecRetrieve == InitRetrieve /\ [][CallRetrieve]_vars

\* ------------------------------------------------------------ the claims

Ready == ObjTruthy(vectorstore) /\ ObjTruthy(chat_model)

\* this step is a question turn: only a turn appends to the history
IsTurn == Len(messages') > Len(messages)

\* C1 (as stated): after a run of "Process Documents" that failed, from any
\* prior state, the session holds no index, the error is reported, and a
\* question is refused.
C1_FailedIngestionLeavesEmpty ==
    (run.handler = "process" /\ ~run.success)
        => (vectorstore = NoneVal /\ run.error # "" /\ ~Ready)

\* C2: a question turn issued in Ready leaves vectorstore and chat_model as
\* they were, whether it succeeds or fails; a turn that records no answer
\* reports an error; the session is Ready after it.
C2_TurnKeepsIndex ==
    [][(IsTurn /\ Ready) =>
          /\ vectorstore' = vectorstore
          /\ chat_model' = chat_model
          /\ Ready'
          /\ (Len(messages') = Len(messages) + 1) => run'.error # ""
          /\ run'.error = "" => run'.appended # <<>>]_vars

\* C2's case: a turn in Ready has failed (retrieval or generation raised)
C2_Witness ==
    /\ run.handler = "ask"
    /\ run.ready
    /\ run.error # ""
    /\ Ready

\* C3: a question asked while the session holds no index, or before any
\* ingestion has succeeded, gets a reported error: no completion call is made,
\* only the user's message joins the history, and every error ends as a
\* report; retrive_relevant_docs raises for a store that is None and when
\* FAISS is unavailable.
C3_AskBeforeIngestionIsRefused ==
    [][/\ (IsTurn /\ (vectorstore = NoneVal \/ ingested = NoneVal)) =>
             /\ run'.error # ""
             /\ ~run'.invoked
             /\ run'.appended = <<>>
             /\ messages' = Append(messages, UserMessage(run'.prompt))
       /\ \A q \in Questions, k \in {NoneVal, Passed(1)}, ok \in BOOLEAN :
             /\ ~retrive_relevant_docs(NoneVal, q, k, faiss_available, ok).ok
             /\ ~retrive_relevant_docs(vectorstore, q, k, FALSE, ok).ok]_vars

\* C3's case: a question was asked with no index in the session
C3_Witness ==
    /\ run.handler = "ask"
    /\ vectorstore = NoneVal
    /\ Len(messages) >= 1
    /\ run.error = "Please upload and process documents first!"

\* C4 (as stated): when the backend returns None or a message whose content
\* is empty, the answer is "No response received."; otherwise it is the
\* content.
C4_NoContentFallsBack ==
    (run.handler = "ask" /\ run.invoked /\ run.backend.kind # "raise") =>
        /\ run.error = ""
        /\ run.response = (IF run.backend = NoneVal \/ run.backend = Message("")
                           THEN "No response received."
                           ELSE run.backend.content)

\* C5: in a turn whose retrieval and generation succeeded and whose speech
\* synthesis gave no audio, the history gains the user's message and the
\* assistant's with the generated text and no audio_id, audio_cache is as it
\* was, and no error is reported.
C5_SpeechFailureIsNotFatal ==
    [][(IsTurn /\ Ready /\ run'.invoked /\ run'.backend.kind # "raise"
          /\ run'.tts \in {"missing", "raises", "nodata"}) =>
          /\ messages' = messages \o <<UserMessage(run'.prompt),
                                       [role |-> "assistant", content |-> run'.response]>>
          /\ audio_cache' = audio_cache
          /\ run'.error = ""]_vars

\* C5's case: the synthesis raised in a turn that has its answer
C5_Witness ==
    /\ run.handler = "ask"
    /\ run.ready
    /\ run.tts = "raises"
    /\ run.response = "The lunch receipt was $12.50."
    /\ messages[Len(messages)].role = "assistant"

\* C7 (as stated): whenever the session answers questions, its index holds
\* exactly the chunks of the most recent batch that was processed
\* successfully.
C7_IndexIsLastSuccessfulBatch ==
    Ready => (ingested.kind = "str" /\ vectorstore.texts = ingested.text)

\* the positions of the parts of a prompt named `name`
PartsNamed(sent, name) == {i \in 1..Len(sent) : sent[i].seg = name}

Instructions ==
    {"answer from the documents", "state when not in the documents", "cite the part used"}

InstructionParts(sent) == {i \in 1..Len(sent) : sent[i].seg \in Instructions}

\* the chunk texts of a prompt, in the order they stand in it
RECURSIVE ChunksOf(_)
ChunksOf(sent) ==
    IF sent = <<>> THEN <<>>
    ELSE (IF Head(sent).seg = "chunk" THEN <<Head(sent).body>> ELSE <<>>)
           \o ChunksOf(Tail(sent))

\* C6 (as stated): in the prompt sent to the completion backend the retrieved
\* chunks come first, in retrieval-rank order, then the literal question, then
\* the instructions.
C6_ContextQuestionInstruction ==
    (run.handler = "ask" /\ run.invoked) =>
        /\ ChunksOf(run.sent) = [n \in 1..Len(run.retrieved) |-> run.retrieved[n].page_content]
        /\ \A c \in PartsNamed(run.sent, "chunk"), q \in PartsNamed(run.sent, "question") :
              c < q
        /\ \A q \in PartsNamed(run.sent, "question"), n \in InstructionParts(run.sent) :
              q < n

\* C6 (amended): the prompt sent to the completion backend holds the three
\* instructions first, then the retrieved chunks in retrieval-rank order, then
\* the literal question, once, and then the closing request for an answer.
C6_InstructionContextQuestion ==
    (run.handler = "ask" /\ run.invoked) =>
        /\ ChunksOf(run.sent) = [n \in 1..Len(run.retrieved) |-> run.retrieved[n].page_content]
        /\ {run.sent[n].seg : n \in InstructionParts(run.sent)} = Instructions
        /\ \A n \in InstructionParts(run.sent), c \in PartsNamed(run.sent, "chunk") : n < c
        /\ \E q \in 1..Len(run.sent) :
              /\ PartsNamed(run.sent, "question") = {q}
              /\ run.sent[q].body = <<run.prompt>>
              /\ \A c \in PartsNamed(run.sent, "chunk") : c < q
              /\ \A n \in InstructionParts(run.sent) : n < q
              /\ q + 1 = Len(run.sent)

\* C6's case: a prompt with several retrieved chunks was sent
C6_Witness ==
    /\ run.handler = "ask"
    /\ run.invoked
    /\ Len(run.retrieved) >= 3
    /\ run.retrieved[1].page_content # run.retrieved[3].page_content

\* the value k has in a call, as the caller sees it
CallK == IF arg.k = NoneVal THEN 4 ELSE arg.k.val

\* C8: a retrieval from a store of N chunks with K >= 1, K being 4 when the
\* caller passes none, returns min(K, N) chunks, none of them twice, the
\* nearest to the query first, and no chunk left out is nearer than one
\* returned.
C8_RetrievalReturnsNearestK ==
    (pc = "done" /\ faiss_available /\ arg.store # NoneVal) =>
        LET texts == arg.store.texts
            docs == ret.val
            ids == {docs[n].id : n \in 1..Len(docs)}
        IN
        /\ ret.ok
        /\ Len(docs) = Min(CallK, Len(texts))
        /\ Cardinality(ids) = Len(docs)
        /\ \A n \in 1..Len(docs) :
              /\ docs[n].id \in 1..Len(texts)
              /\ docs[n].page_content = texts[docs[n].id]
        /\ \A m, n \in 1..Len(docs) :
              m < n => Distance(arg.query, docs[m].page_content)
                         <= Distance(arg.query, docs[n].page_content)
        /\ \A n \in 1..Len(docs), j \in (1..Len(texts)) \ ids :
              Distance(arg.query, docs[n].page_content) <= Distance(arg.query, texts[j])

\* C8's cases: K below N with the default K, and K above N
C8_Witness ==
    /\ pc = "done"
    /\ faiss_available
    /\ arg.store # NoneVal
    /\ arg.k = NoneVal
    /\ Len(arg.store.texts) = 5
    /\ Len(ret.val) = 4
    /\ ret.val[1].id > ret.val[2].id

\* the text of a page as the claim counts it: nothing for a page without text
PageText(page) == IF page.kind = "str" THEN page.text ELSE <<>>

RECURSIVE PagesInOrder(_)
PagesInOrder(pages) ==
    IF pages = <<>> THEN <<>> ELSE PageText(Head(pages)) \o PagesInOrder(Tail(pages))

Unreadable(file) ==
    ~file.parses \/ \E n \in 1..Len(file.pages) : file.pages[n].kind = "raise"

\* C10: extract_text_from_pdf returns the texts of the pages joined in page
\* order with nothing between them, a page without text adding nothing and
\* raising nothing; for a document that cannot be parsed, or a page that
\* cannot be read, it raises and returns no text.
C10_ExtractJoinsPagesInOrder ==
    pc = "done" =>
        IF Unreadable(arg) THEN ~ret.ok
        ELSE ret.ok /\ ret.val = PagesInOrder(arg.pages)

\* C10's case: a document of several pages, one of them without text
C10_Witness ==
    /\ pc = "done"
    /\ ret.ok
    /\ Len(arg.pages) = 3
    /\ arg.pages[2] = NoneVal
    /\ arg.pages[1].kind = "str"
    /\ arg.pages[3].kind = "str"
    /\ Len(ret.val) = 3

\* the pairs of adjacent chunks of the split in ret
AdjacentPairs == 1..(Len(ret.ranges) - 1)

WithAudioId == {i \in 1..Len(messages) : "audio_id" \in DOMAIN messages[i]}

\* every audio_id of the history is a key of audio_cache mapped to audio that
\* is not empty, the history shows that audio, and only assistant messages
\* carry one
AudioIdsAreCached ==
    \A i \in WithAudioId :
        /\ messages[i].role = "assistant"
        /\ messages[i].audio_id \in DOMAIN audio_cache
        /\ audio_cache[messages[i].audio_id].kind = "bytes"
        /\ audio_cache[messages[i].audio_id].mp3_of # ""
        /\ HistoryAudio(messages, audio_cache, i) = audio_cache[messages[i].audio_id]

\* a step keeps every entry of the history and of audio_cache as it was
NothingIsLost ==
    /\ Len(messages') >= Len(messages)
    /\ SubSeq(messages', 1, Len(messages)) = messages
    /\ DOMAIN audio_cache \subseteq DOMAIN audio_cache'
    /\ \A id \in DOMAIN audio_cache : audio_cache'[id] = audio_cache[id]

\* C11: after any sequence of ingestions and questions, every audio_id carried
\* by a message of the history is a key of audio_cache mapped to non-empty
\* audio, only assistant messages carry an audio_id, and no step removes or
\* changes an entry of the history or of audio_cache.
C11_AudioIdsStayCached == []AudioIdsAreCached /\ [][NothingIsLost]_vars

\* C11's case: an answer with audio in the history, still cached after a later
\* answer that has none
C11_Witness ==
    /\ Len(messages) = 4
    /\ WithAudioId = {2}
    /\ messages[4].role = "assistant"
    /\ DOMAIN audio_cache = {messages[2].audio_id}

\* C12: after any sequence of recordings, transcriptions, input changes and
\* submissions, stt_transcript and user_input_text_manual are never both
\* non-empty; right after a prompt is submitted both are empty; and after a
\* transcription that failed the transcript is empty.
C12_TranscriptOrManualText ==
    /\ ~(stt_transcript # "" /\ user_input_text_manual # "")
    /\ run.handler = "ask" => (stt_transcript = "" /\ user_input_text_manual = "")
    /\ (run.handler = "record" /\ run.error # "") => stt_transcript = ""

\* C12's case: the user typed over a transcript, and the callback put the
\* typed text in place of it
C12_Witness ==
    /\ run.handler = "change"
    /\ run.cleared
    /\ recorded_audio_bytes # NoneVal
    /\ user_input_text_manual = "q3"
    /\ stt_transcript = ""

====
